---- MODULE Spec2Model ----
(***************************************************************************)
(* Attendee retrieval service of grr-checkin: the GET handler of the       *)
(* attendees-list route and its three-tier query-degradation chain         *)
(* (bulk join -> per-event join -> attendee-only).                         *)
(*                                                                         *)
(* One request is modelled.  Every await on query() is a suspension point: *)
(* an action is the resumption of the handler when the awaited query       *)
(* settles, run synchronously up to the next await or to the response.     *)
(*                                                                         *)
(* Row lists are kept as sequences of runs: a run [q, ev, lo, hi, seat]    *)
(* stands for the rows lo..hi of the result of query q (for event ev), so  *)
(* that lists of 10,000 rows and more are represented exactly.             *)
(***************************************************************************)
EXTENDS Integers, Sequences, FiniteSets

VARIABLES pc, inflight, eventIds, idx, aggregated, fetched, error, response, log

\* process.env.NODE_ENV of the server
VARIABLE NODE_ENV

\* the variables of the request handler
request == <<pc, inflight, eventIds, idx, aggregated, fetched, error, response, log, NODE_ENV>>

\* the data store seen through its queries: its contents, the date filter of
\* the request, and the rows a query or a tier answered
VARIABLES db, dateParam, answer

storeVars == <<db, dateParam, answer>>

\* the projection of a fetched row: the raw row and the row shown for it
VARIABLES row, shown

rowVars == <<row, shown>>

\* the dashboard: the rows it holds, the text of the search box, what it renders
VARIABLES results, searchQuery, view

\* the fetches of the dashboard: the loading flag, the date picked, the calls
\* of fetchAttendees that have not returned, how many were made, and those
\* that returned with what they received
VARIABLES isLoading, selectedDate, outstanding, started, fetchLog

fetchVars == <<isLoading, selectedDate, outstanding, started, fetchLog>>

clientVars == <<results, searchQuery, view, fetchVars>>

\* the variables outside the request handler
aux == <<storeVars, rowVars, clientVars>>

vars == <<request, aux>>

----------------------------------------------------------------------------
(* Program constants *)

HOST_USER_ID == 9835080
STATEMENT_TIMEOUT_CODE == "57014"
MAX_ATTENDEE_ROWS == 10000

(* Bounds of the model *)

\* number of distinct event identifiers the resolver can return
MaxEvents == 3

----------------------------------------------------------------------------
(* Row lists *)

Min(a, b) == IF a < b THEN a ELSE b

\* the rows 1..n of one query result
Rows(q, ev, n, seat) ==
    IF n = 0 THEN <<>>
    ELSE <<[q |-> q, ev |-> ev, lo |-> 1, hi |-> n, seat |-> seat]>>

\* rows.length
RECURSIVE Length(_)
Length(rows) ==
    IF rows = <<>> THEN 0
    ELSE (Head(rows).hi - Head(rows).lo + 1) + Length(Tail(rows))

\* rows.slice(0, n)
RECURSIVE Slice(_, _)
Slice(rows, n) ==
    IF rows = <<>> \/ n <= 0 THEN <<>>
    ELSE LET h == Head(rows)
             k == h.hi - h.lo + 1
         IN  IF k <= n THEN <<h>> \o Slice(Tail(rows), n - k)
             ELSE <<[h EXCEPT !.hi = h.lo + n - 1]>>

\* a slip that puts the new rows in front (unshift)
Push_front(agg, rows) == rows \o agg

\* aggregated.push(...rows)
Push(agg, rows) == agg \o rows

\* a query text without its LIMIT clause
LIMIT_none(avail, n) == avail

\* LIMIT n of a query text
LIMIT(avail, n) == Min(avail, n)

----------------------------------------------------------------------------
(* The data store: what a query can settle with *)

\* an error value: whether it is an Error, its code, its message, whether the
\* message contains "connect" (case-sensitive), and whether the failure is one
\* of reaching the data store
ErrorValue(name, isError, code, message, connect, connectivity) ==
    [name |-> name, instanceofError |-> isError, code |-> code, message |-> message,
     connect |-> connect, connectivity |-> connectivity]

NoError == ErrorValue("none", FALSE, "none", "none", FALSE, FALSE)

\* the errors query() can reject with: the statement timeout, a refused
\* connection, a connection the server dropped, another database error, and
\* a thrown value that is not an Error
Errors ==
    { ErrorValue("timeout", TRUE, STATEMENT_TIMEOUT_CODE,
                 "canceling statement due to statement timeout", FALSE, FALSE),
      ErrorValue("connection", TRUE, "ECONNREFUSED",
                 "connect ECONNREFUSED 127.0.0.1:5432", TRUE, TRUE),
      ErrorValue("terminated", TRUE, "none",
                 "Connection terminated unexpectedly", FALSE, TRUE),
      ErrorValue("database", TRUE, "42P01",
                 "relation does not exist", FALSE, FALSE),
      ErrorValue("thrown", FALSE, "none", "none", FALSE, FALSE) }

\* the values of NODE_ENV
NodeEnvs == {"development", "production", "test"}

\* how many rows of the store match a query (before its LIMIT)
Avail == {0, 1, MAX_ATTENDEE_ROWS - 1, MAX_ATTENDEE_ROWS, MAX_ATTENDEE_ROWS + 1}

\* whether the joined rows of a result carry seat data or none (LEFT JOIN)
SeatData == {"value", "null"}

EventIdSpace == 1 .. MaxEvents

\* the elements of a sequence
Range(s) == { s[i] : i \in DOMAIN s }

\* sequences of distinct event identifiers: a result of the event query
IsInjective(s) == \A i, j \in DOMAIN s : s[i] = s[j] => i = j
EventLists ==
    { s \in UNION { [1 .. n -> EventIdSpace] : n \in 0 .. MaxEvents } : IsInjective(s) }

----------------------------------------------------------------------------
(* Query texts: what each query returns when the store has `avail` matching rows *)

\* COMBINED_ATTENDEE_QUERY: attendees LEFT JOIN seats over all event ids
COMBINED_ATTENDEE_QUERY(avail, seat) ==
    Rows("bulk", 0, LIMIT(avail, MAX_ATTENDEE_ROWS), seat)

\* COMBINED_ATTENDEE_QUERY_PER_EVENT: the same join for one event id
COMBINED_ATTENDEE_QUERY_PER_EVENT(eventId, avail, seat) ==
    Rows("perEvent", eventId, LIMIT(avail, MAX_ATTENDEE_ROWS), seat)

\* ATTENDEE_FALLBACK_QUERY: attendee identity columns only, no seat columns
ATTENDEE_FALLBACK_QUERY(avail) ==
    Rows("noSeats", 0, LIMIT(avail, MAX_ATTENDEE_ROWS), "absent")

----------------------------------------------------------------------------
(* HTTP responses *)

NoResponse ==
    [status |-> 0, body |-> "none", hostUserId |-> 0, results |-> <<>>, total |-> 0,
     seatAssignmentsIncluded |-> "omitted", error |-> "none", details |-> "undefined"]

\* { results: [], metadata: { hostUserId, total: 0 } }
EmptyResponse ==
    [status |-> 200, body |-> "results", hostUserId |-> HOST_USER_ID,
     results |-> <<>>, total |-> 0, seatAssignmentsIncluded |-> "omitted",
     error |-> "none", details |-> "undefined"]

\* the two maps of GET: one output row per input row, in order
TransformRun(r) ==
    [q |-> r.q, ev |-> r.ev, lo |-> r.lo, hi |-> r.hi,
     seatInfo |-> IF r.seat = "value" THEN "value" ELSE "null"]

transformedResults(rows) == [i \in DOMAIN rows |-> TransformRun(rows[i])]

FlagOf(b) == IF b THEN "true" ELSE "false"

\* GET without the short-circuit on an empty list of rows
SuccessResponse_alwaysFlag(rows, flag) ==
    [status |-> 200, body |-> "results", hostUserId |-> HOST_USER_ID,
     results |-> transformedResults(rows),
     total |-> Length(transformedResults(rows)),
     seatAssignmentsIncluded |-> FlagOf(flag),
     error |-> "none", details |-> "undefined"]

\* { results, metadata: { hostUserId, total, seatAssignmentsIncluded } }
SuccessResponse(rows, flag) ==
    IF Length(rows) = 0 THEN EmptyResponse
    ELSE [status |-> 200, body |-> "results", hostUserId |-> HOST_USER_ID,
          results |-> transformedResults(rows),
          total |-> Length(transformedResults(rows)),
          seatAssignmentsIncluded |-> FlagOf(flag),
          error |-> "none", details |-> "undefined"]

\* error instanceof Error && error.message.includes("connect")
IsConnectionError(err) == err.instanceofError /\ err.connect

\* the details field of the 503 body
Details503(err) ==
    IF NODE_ENV = "development" THEN err.message ELSE "undefined"

\* details given whenever NODE_ENV is not "production"
Details500_nonProduction(err) ==
    IF NODE_ENV # "production"
    THEN (IF err.instanceofError THEN err.message ELSE "Unknown error")
    ELSE "undefined"

\* the details field of the 500 body
Details500(err) ==
    IF NODE_ENV = "development"
    THEN (IF err.instanceofError THEN err.message ELSE "Unknown error")
    ELSE "undefined"

\* the catch block of GET: 503 for a connection error, 500 otherwise
FailureResponse(err) ==
    IF IsConnectionError(err)
    THEN [status |-> 503, body |-> "error", hostUserId |-> 0, results |-> <<>>,
          total |-> 0, seatAssignmentsIncluded |-> "omitted",
          error |-> "Database connection failed. Please check your credentials and try again.",
          details |-> Details503(err)]
    ELSE [status |-> 500, body |-> "error", hostUserId |-> 0, results |-> <<>>,
          total |-> 0, seatAssignmentsIncluded |-> "omitted",
          error |-> "Failed to fetch attendees list",
          details |-> Details500(err)]

----------------------------------------------------------------------------
(* Strings: a string value is null or a sequence of characters *)

Null == [null |-> TRUE, s |-> <<>>]
Str(s) == [null |-> FALSE, s |-> s]

\* a string value in a condition: neither null nor empty
Truthy(v) == ~v.null /\ v.s # <<>>

\* no row is projected
RowIdle ==
    /\ row = <<>>
    /\ shown = <<>>

\* no fetch is made
FetchIdle ==
    /\ isLoading = FALSE
    /\ selectedDate = 0
    /\ outstanding = {}
    /\ started = 0
    /\ fetchLog = <<>>

\* the dashboard is not open
ClientIdle ==
    /\ results = <<>>
    /\ searchQuery = <<>>
    /\ view = <<>>
    /\ FetchIdle

----------------------------------------------------------------------------
(* The handler *)

\* searchParams.get("date"): null, or a calendar day
NoDate == [given |-> FALSE, day |-> 0]
DateOf(day) == [given |-> TRUE, day |-> day]

NoAnswer == [op |-> "none", events |-> <<>>, rows |-> <<>>, flag |-> FALSE]

\* the store is not looked into
StoreIdle ==
    /\ db = [events |-> <<>>, attendees |-> {}, guests |-> {}]
    /\ dateParam = NoDate
    /\ answer = NoAnswer

NoResult == [set |-> FALSE, rows |-> <<>>, seatAssignmentsIncluded |-> FALSE]

Init ==
    /\ pc = "idle"
    /\ inflight = {}
    /\ eventIds = <<>>
    /\ idx = 0
    /\ aggregated = <<>>
    /\ fetched = NoResult
    /\ error = NoError
    /\ response = NoResponse
    /\ log = <<>>
    /\ NODE_ENV \in NodeEnvs
    /\ StoreIdle
    /\ RowIdle
    /\ ClientIdle

Query(q, arg) == [q |-> q, arg |-> arg]

\* the query the handler is suspended on
Awaited ==
    CASE pc = "step1" -> Query("test", 0)
      [] pc = "step2" -> Query("events", 0)
      [] pc = "bulk" -> Query("bulk", 0)
      [] pc = "perEvent" -> Query("perEvent", eventIds[idx])
      [] pc = "noSeats" -> Query("noSeats", 0)
      [] OTHER -> Query("none", 0)

\* await query(...): the awaited query has settled, the queries qs are issued
Await(qs) == inflight' = (inflight \ {Awaited}) \cup qs

\* the history of settled queries: what was asked and what came back
\* (count: the length of the returned array)
Settled(ok, count, rows, err) ==
    log' = Append(log, [q |-> Awaited.q, arg |-> Awaited.arg, ok |-> ok,
                        count |-> count, rows |-> rows, err |-> err])

\* a slip that returns from GET without a response
ReturnToGET_silent(rows, flag) ==
    /\ fetched' = [set |-> TRUE, rows |-> rows, seatAssignmentsIncluded |-> flag]
    /\ pc' = "done"
    /\ Await({})
    /\ UNCHANGED <<error, response>>

\* fetchAttendeesWithFallback returns { rows, seatAssignmentsIncluded } and GET answers
ReturnToGET(rows, flag) ==
    /\ fetched' = [set |-> TRUE, rows |-> rows, seatAssignmentsIncluded |-> flag]
    /\ response' = SuccessResponse(rows, flag)
    /\ pc' = "done"
    /\ Await({})
    /\ UNCHANGED error

\* a slip that answers with the rows computed so far
ThrowToGET_partial(err) ==
    /\ error' = err
    /\ response' = [FailureResponse(err) EXCEPT !.results = transformedResults(aggregated),
                                              !.total = Length(aggregated)]
    /\ pc' = "done"
    /\ Await({})
    /\ UNCHANGED fetched

\* an error leaves the try block of GET and its catch block answers
ThrowToGET(err) ==
    /\ error' = err
    /\ response' = FailureResponse(err)
    /\ pc' = "done"
    /\ Await({})
    /\ UNCHANGED fetched

\* the fallback chain switched off: no error counts as the statement timeout
isStatementTimeout_never(err) == FALSE

\* a slip that only tests that the error carries a code
isStatementTimeout_anyCode(err) == err.code # "none"

\* a slip in the code compared against (57P01: admin shutdown)
isStatementTimeout_wrongCode(err) == err.code = "57P01"

isStatementTimeout(err) == err.code = STATEMENT_TIMEOUT_CODE

\* GET is called: step 1, the test query
GET ==
    /\ pc = "idle"
    /\ pc' = "step1"
    /\ inflight' = {Query("test", 0)}
    /\ UNCHANGED <<eventIds, idx, aggregated, fetched, error, response, log>>
    /\ UNCHANGED <<NODE_ENV, aux>>

\* what a query settles with: rows of the store, or a rejection
Succeeded(avail, seat) == [ok |-> TRUE, avail |-> avail, seat |-> seat, err |-> NoError]
Rejected(err) == [ok |-> FALSE, avail |-> 0, seat |-> "null", err |-> err]
Rejections == { Rejected(e) : e \in Errors }
JoinOutcomes == { Succeeded(a, s) : a \in Avail, s \in SeatData } \cup Rejections
PlainOutcomes == { Succeeded(a, "absent") : a \in Avail } \cup Rejections

\* step 1 settles: on success step 2, the event query, is issued
Step1(o) ==
    /\ pc = "step1"
    /\ Awaited \in inflight
    /\ Settled(o.ok, IF o.ok THEN 1 ELSE 0, <<>>, o.err)
    /\ IF o.ok
       THEN /\ pc' = "step2"
            /\ Await({Query("events", 0)})
            /\ UNCHANGED <<fetched, error, response>>
       ELSE ThrowToGET(o.err)
    /\ UNCHANGED <<eventIds, idx, aggregated>>
    /\ UNCHANGED <<NODE_ENV, aux>>

\* the short-circuit left out
NoEvents_never(ids) == FALSE

\* eventResult.length === 0
NoEvents(ids) == Len(ids) = 0

\* step 2 settles with the qualifying events: none short-circuits to the
\* empty response, otherwise fetchAttendeesWithFallback issues the bulk query
Step2(o, ids) ==
    /\ pc = "step2"
    /\ Awaited \in inflight
    /\ Settled(o.ok, IF o.ok THEN Len(ids) ELSE 0, <<>>, o.err)
    /\ IF ~o.ok
       THEN ThrowToGET(o.err) /\ UNCHANGED eventIds
       ELSE IF NoEvents(ids)
       THEN /\ response' = EmptyResponse
            /\ pc' = "done"
            /\ Await({})
            /\ UNCHANGED <<eventIds, fetched, error>>
       ELSE /\ eventIds' = ids
            /\ pc' = "bulk"
            /\ Await({Query("bulk", 0)})
            /\ UNCHANGED <<fetched, error, response>>
    /\ UNCHANGED <<idx, aggregated>>
    /\ UNCHANGED <<NODE_ENV, aux>>

\* a slip in the flag of the bulk result
BulkSucceeded_noFlag(rows) == ReturnToGET(rows, FALSE)

\* the bulk query succeeded: return { rows, seatAssignmentsIncluded: true }
BulkSucceeded(rows) == ReturnToGET(rows, TRUE)

\* a fan-out: the queries of all remaining events are issued at once (Promise.all)
IssuePerEvent_all(i) ==
    Await({Query("perEvent", eventIds[j]) : j \in i .. Len(eventIds)})

\* query(COMBINED_ATTENDEE_QUERY_PER_EVENT, [eventIds[i]]) is issued and awaited
IssuePerEvent(i) == Await({Query("perEvent", eventIds[i])})

\* fetchAttendeesPerEvent is entered: aggregated = [], first iteration of the loop
EnterPerEvent ==
    /\ aggregated' = <<>>
    /\ IF Len(eventIds) = 0
       THEN ReturnToGET(<<>>, TRUE) /\ UNCHANGED idx
       ELSE /\ idx' = 1
            /\ pc' = "perEvent"
            /\ IssuePerEvent(1)
            /\ UNCHANGED <<fetched, error, response>>

\* the bulk query of fetchAttendeesWithFallback settles
Bulk(o) ==
    /\ pc = "bulk"
    /\ Awaited \in inflight
    /\ LET rows == COMBINED_ATTENDEE_QUERY(o.avail, o.seat)
       IN  /\ Settled(o.ok, IF o.ok THEN Length(rows) ELSE 0, IF o.ok THEN rows ELSE <<>>, o.err)
           /\ IF o.ok
              THEN BulkSucceeded(rows) /\ UNCHANGED <<idx, aggregated>>
              ELSE IF isStatementTimeout(o.err)
              THEN EnterPerEvent
              ELSE ThrowToGET(o.err) /\ UNCHANGED <<idx, aggregated>>
    /\ UNCHANGED eventIds
    /\ UNCHANGED <<NODE_ENV, aux>>

\* a slip in the comparison: > for >=
CapReached_strict(agg) == Length(agg) > MAX_ATTENDEE_ROWS

\* aggregated.length >= MAX_ATTENDEE_ROWS
CapReached(agg) == Length(agg) >= MAX_ATTENDEE_ROWS

\* the per-event tier hit the statement timeout: fetchAttendeesWithoutSeats
EnterNoSeats ==
    /\ pc' = "noSeats"
    /\ Await({Query("noSeats", 0)})
    /\ UNCHANGED <<fetched, error, response>>

\* one per-event query of fetchAttendeesPerEvent settles
PerEvent(o) ==
    /\ pc = "perEvent"
    /\ Awaited \in inflight
    /\ LET rows == COMBINED_ATTENDEE_QUERY_PER_EVENT(eventIds[idx], o.avail, o.seat)
           agg == Push(aggregated, rows)
       IN  /\ Settled(o.ok, IF o.ok THEN Length(rows) ELSE 0, IF o.ok THEN rows ELSE <<>>, o.err)
           /\ IF o.ok
              THEN /\ aggregated' = agg
                   /\ IF CapReached(agg)
                      THEN ReturnToGET(Slice(agg, MAX_ATTENDEE_ROWS), TRUE) /\ UNCHANGED idx
                      ELSE IF idx < Len(eventIds)
                      THEN /\ idx' = idx + 1
                           /\ IssuePerEvent(idx + 1)
                           /\ UNCHANGED <<pc, fetched, error, response>>
                      ELSE ReturnToGET(agg, TRUE) /\ UNCHANGED idx
              ELSE /\ UNCHANGED <<idx, aggregated>>
                   /\ IF isStatementTimeout(o.err)
                      THEN EnterNoSeats
                      ELSE ThrowToGET(o.err)
    /\ UNCHANGED eventIds
    /\ UNCHANGED <<NODE_ENV, aux>>

\* attendeeRows.map(row => ({ ...row, seat_id: null, seat_obj: null, checkin_timestamp: null }))
NullSeats(rows) == [i \in DOMAIN rows |-> [rows[i] EXCEPT !.seat = "null"]]

\* a slip that keeps the rows the per-event tier had accumulated
NoSeatsSucceeded_keepPartial(rows) ==
    ReturnToGET(Push(aggregated, NullSeats(rows)), FALSE)

\* the attendee-only query succeeded: return { rows: fallbackRows, seatAssignmentsIncluded: false }
NoSeatsSucceeded(rows) == ReturnToGET(NullSeats(rows), FALSE)

\* a slip that tries the attendee-only query again when it times out
NoSeatsFailed_retry(err) ==
    IF isStatementTimeout(err)
    THEN /\ pc' = "noSeats"
         /\ inflight' = {Query("noSeats", 0)}
         /\ UNCHANGED <<fetched, error, response>>
    ELSE ThrowToGET(err)

\* the attendee-only query rejects: nothing catches it below GET
NoSeatsFailed(err) == ThrowToGET(err)

\* the attendee-only query of fetchAttendeesWithoutSeats settles
NoSeats(o) ==
    /\ pc = "noSeats"
    /\ Awaited \in inflight
    /\ LET rows == ATTENDEE_FALLBACK_QUERY(o.avail)
       IN  /\ Settled(o.ok, IF o.ok THEN Length(rows) ELSE 0, IF o.ok THEN rows ELSE <<>>, o.err)
           /\ IF o.ok
              THEN NoSeatsSucceeded(rows)
              ELSE NoSeatsFailed(o.err)
    /\ UNCHANGED <<eventIds, idx, aggregated>>
    /\ UNCHANGED <<NODE_ENV, aux>>

Next ==
    \/ GET
    \/ \E o \in PlainOutcomes : Step1(o)
    \/ \E o \in PlainOutcomes, ids \in EventLists : Step2(o, ids)
    \/ \E o \in JoinOutcomes : Bulk(o)
    \/ \E o \in JoinOutcomes : PerEvent(o)
    \/ \E o \in PlainOutcomes : NoSeats(o)

Spec == Init /\ [][Next]_vars

\* an awaited query settles
QuerySettles ==
    \/ \E o \in PlainOutcomes : Step1(o)
    \/ \E o \in PlainOutcomes, ids \in EventLists : Step2(o, ids)
    \/ \E o \in JoinOutcomes : Bulk(o)
    \/ \E o \in JoinOutcomes : PerEvent(o)
    \/ \E o \in PlainOutcomes : NoSeats(o)

\* every query has an outcome: the store answers it or the driver rejects it
SpecLive == Spec /\ WF_vars(QuerySettles)

----------------------------------------------------------------------------
(* Vocabulary of the properties *)

Tiers == {"bulk", "perEvent", "noSeats"}

\* the entry of the history is a query that hit the statement timeout
TimedOut(e) == ~e.ok /\ e.err.code = "57014"

\* the entry is a query that failed with any other error
FailedOtherwise(e) == ~e.ok /\ e.err.code # "57014"

\* the queries issued right after the i-th settled one
IssuedAfter(i) ==
    IF i < Len(log) THEN {log[i + 1].q} ELSE {x.q : x \in inflight}

\* no query follows the i-th settled one
LastQuery(i) == i = Len(log) /\ inflight = {}

----------------------------------------------------------------------------
(* C1: a failure of the bulk query, of a per-event query or of the         *)
(* attendee-only query with an error other than the statement timeout      *)
(* (57014) ends the request: no query is issued after it, and that very    *)
(* error is the one that leaves fetchAttendeesWithFallback.                *)
FatalErrorAborts ==
    \A i \in DOMAIN log :
        (log[i].q \in Tiers /\ FailedOtherwise(log[i]))
            => /\ LastQuery(i)
               /\ pc = "done"
               /\ ~fetched.set
               /\ error = log[i].err

\* a per-event query fails with a database error after an earlier one succeeded
FatalErrorInPerEventTier ==
    /\ pc = "done"
    /\ Len(log) >= 5
    /\ log[Len(log)].q = "perEvent"
    /\ FailedOtherwise(log[Len(log)])
    /\ log[Len(log)].err.name = "database"
    /\ log[Len(log) - 1].q = "perEvent"
    /\ log[Len(log) - 1].count > 0
    /\ error = log[Len(log)].err

----------------------------------------------------------------------------
AllowedAfter(prev, q) ==
    CASE q = "test" -> FALSE
      [] q = "events" -> prev.q = "test" /\ prev.ok
      [] q = "bulk" -> prev.q = "events" /\ prev.ok
      [] q = "perEvent" -> \/ prev.q = "bulk" /\ TimedOut(prev)
                           \/ prev.q = "perEvent" /\ prev.ok
      [] q = "noSeats" -> prev.q = "perEvent" /\ TimedOut(prev)
      [] OTHER -> FALSE

(* C2: the tiers are tried in the order bulk, per-event, attendee-only.    *)
(* The bulk query is the first attendee query; a per-event query follows   *)
(* only a timed-out bulk query or a successful per-event query; the        *)
(* attendee-only query follows only a timed-out per-event query; and after *)
(* a timed-out bulk query the next query is a per-event one, after a       *)
(* timed-out per-event query the next (and last) is the attendee-only one. *)
TiersInOrder ==
    /\ \A i \in DOMAIN log :
          /\ i > 1 => AllowedAfter(log[i - 1], log[i].q)
          /\ (log[i].q = "bulk" /\ TimedOut(log[i])) => IssuedAfter(i) = {"perEvent"}
          /\ (log[i].q = "perEvent" /\ TimedOut(log[i])) => IssuedAfter(i) = {"noSeats"}
          /\ log[i].q = "noSeats" => LastQuery(i)
    /\ \A x \in inflight : Len(log) > 0 => AllowedAfter(log[Len(log)], x.q)

\* the attendee-only query is in flight after the second per-event query timed out
EscalatedToNoSeats ==
    /\ pc = "noSeats"
    /\ inflight = {Query("noSeats", 0)}
    /\ Len(log) = 5
    /\ log[3].q = "bulk" /\ TimedOut(log[3])
    /\ log[4].q = "perEvent" /\ log[4].ok
    /\ log[5].q = "perEvent" /\ TimedOut(log[5])

----------------------------------------------------------------------------
\* the rows the per-event query of event e returned (none if it was not issued)
PerEventResult(e) ==
    IF \E i \in DOMAIN log : log[i].q = "perEvent" /\ log[i].arg = e /\ log[i].ok
    THEN (CHOOSE x \in {log[i] : i \in DOMAIN log} :
              x.q = "perEvent" /\ x.arg = e /\ x.ok).rows
    ELSE <<>>

RECURSIVE ConcatPerEvent(_)
ConcatPerEvent(ids) ==
    IF ids = <<>> THEN <<>>
    ELSE PerEventResult(Head(ids)) \o ConcatPerEvent(Tail(ids))

PerEventTierSucceeded ==
    /\ pc = "done"
    /\ \E i \in DOMAIN log : log[i].q = "bulk" /\ TimedOut(log[i])
    /\ \A i \in DOMAIN log : log[i].q = "perEvent" => log[i].ok

(* C3: when the bulk query timed out and every per-event query that was    *)
(* issued succeeded, the result has seatAssignmentsIncluded = true and its *)
(* rows are the per-event results concatenated in the order of eventIds,   *)
(* cut to the first MAX_ATTENDEE_ROWS rows.                                *)
PerEventResultIsConcatenation ==
    PerEventTierSucceeded
        => /\ fetched.set
           /\ fetched.seatAssignmentsIncluded = TRUE
           /\ fetched.rows = Slice(ConcatPerEvent(eventIds), MAX_ATTENDEE_ROWS)
           /\ response.status = 200

\* two events answered with rows, the second one cut by the cap
PerEventConcatenatedAndCut ==
    /\ PerEventTierSucceeded
    /\ Len(log) = 5
    /\ log[4].count = 1
    /\ log[5].count = MAX_ATTENDEE_ROWS
    /\ Length(fetched.rows) = MAX_ATTENDEE_ROWS
    /\ Len(fetched.rows) = 2

----------------------------------------------------------------------------
NoSeatsTierSucceeded ==
    /\ pc = "done"
    /\ \E i \in DOMAIN log : log[i].q = "bulk" /\ TimedOut(log[i])
    /\ \E i \in DOMAIN log : log[i].q = "perEvent" /\ TimedOut(log[i])
    /\ \E i \in DOMAIN log : log[i].q = "noSeats" /\ log[i].ok

(* C4: when the bulk query and then a per-event query timed out and the    *)
(* attendee-only query succeeded, the result has seatAssignmentsIncluded = *)
(* false, every row has null seat fields, and every row is a row of the    *)
(* attendee-only query: none of the rows accumulated by the per-event tier *)
(* is returned.                                                            *)
NoSeatsResultHasNoSeats ==
    NoSeatsTierSucceeded
        => /\ fetched.set
           /\ fetched.seatAssignmentsIncluded = FALSE
           /\ \A k \in DOMAIN fetched.rows :
                 /\ fetched.rows[k].seat = "null"
                 /\ fetched.rows[k].q = "noSeats"
           /\ Length(fetched.rows) = log[Len(log)].count
           /\ \A k \in DOMAIN response.results : response.results[k].seatInfo = "null"

\* rows with seat data had been accumulated before the per-event tier timed out
NoSeatsAfterPartialRows ==
    /\ NoSeatsTierSucceeded
    /\ Len(log) = 6
    /\ log[4].q = "perEvent" /\ log[4].count > 0 /\ log[4].rows[1].seat = "value"
    /\ log[6].count > 0
    /\ response.seatAssignmentsIncluded = "false"

----------------------------------------------------------------------------
(* C5: when the bulk query succeeds it is the only attendee query of the   *)
(* request (no per-event query and no attendee-only query is issued) and   *)
(* the result is its rows with seatAssignmentsIncluded = true.             *)
BulkSuccessIsFinal ==
    \A i \in DOMAIN log :
        (log[i].q = "bulk" /\ log[i].ok)
            => /\ LastQuery(i)
               /\ \A j \in DOMAIN log : log[j].q \in Tiers => j = i
               /\ pc = "done"
               /\ fetched.set
               /\ fetched.seatAssignmentsIncluded = TRUE
               /\ fetched.rows = log[i].rows

\* the bulk query answered with rows
BulkSucceededWithRows ==
    /\ pc = "done"
    /\ Len(log) = 3
    /\ log[3].q = "bulk" /\ log[3].ok /\ log[3].count > 0
    /\ response.seatAssignmentsIncluded = "true"

----------------------------------------------------------------------------
(* C6: there is no fourth tier.  When the attendee-only query fails, with  *)
(* the statement timeout or with any other error, no query is issued after *)
(* it and that error leaves fetchAttendeesWithFallback.                    *)
NoFourthTier ==
    \A i \in DOMAIN log :
        (log[i].q = "noSeats" /\ ~log[i].ok)
            => /\ LastQuery(i)
               /\ pc = "done"
               /\ ~fetched.set
               /\ error = log[i].err
               /\ response.body = "error"

\* the attendee-only query itself hit the statement timeout
NoSeatsTimedOut ==
    /\ pc = "done"
    /\ Len(log) >= 5
    /\ log[Len(log)].q = "noSeats"
    /\ TimedOut(log[Len(log)])
    /\ error.code = "57014"

----------------------------------------------------------------------------
(* C7: whichever tier produces it, the result of fetchAttendeesWithFallback *)
(* has at most MAX_ATTENDEE_ROWS (10,000) rows, and so has the response.   *)
RowCountCapped ==
    /\ Length(fetched.rows) <= 10000
    /\ response.total <= 10000

\* the bulk query answered with a full page of rows
BulkFilledTheCap ==
    /\ pc = "done"
    /\ fetched.set
    /\ log[Len(log)].q = "bulk"
    /\ Length(fetched.rows) = 10000
    /\ response.total = 10000

----------------------------------------------------------------------------
\* the number of rows the per-event queries returned up to the i-th settled query
RECURSIVE PerEventRowsUpTo(_)
PerEventRowsUpTo(i) ==
    IF i = 0 THEN 0
    ELSE (IF log[i].q = "perEvent" THEN log[i].count ELSE 0) + PerEventRowsUpTo(i - 1)

(* C8: in the per-event tier, once the rows accumulated up to some event   *)
(* number MAX_ATTENDEE_ROWS or more, the tier returns the first            *)
(* MAX_ATTENDEE_ROWS of them as a success: that event's query is the last  *)
(* query of the request and no error is raised.                            *)
CapStopsPerEventTier ==
    \A i \in DOMAIN log :
        (log[i].q = "perEvent" /\ log[i].ok /\ PerEventRowsUpTo(i) >= 10000)
            => /\ LastQuery(i)
               /\ pc = "done"
               /\ fetched.set
               /\ Length(fetched.rows) = 10000
               /\ error = NoError
               /\ response.status = 200

\* the cap is met exactly by the second of three events; the third is never asked
CapMetBeforeLastEvent ==
    /\ pc = "done"
    /\ Len(eventIds) = 3
    /\ Len(log) = 5
    /\ log[4].q = "perEvent" /\ log[4].count = 10000 - 1
    /\ log[5].q = "perEvent" /\ log[5].count = 1
    /\ fetched.set

----------------------------------------------------------------------------
(* C9: when the event query returns no event, the request is answered with *)
(* status 200, results = [] and total = 0, and no attendee query (bulk,    *)
(* per-event, attendee-only) is issued.                                    *)
NoEventsNoFetch ==
    \A i \in DOMAIN log :
        (log[i].q = "events" /\ log[i].ok /\ log[i].count = 0)
            => /\ LastQuery(i)
               /\ pc = "done"
               /\ ~fetched.set
               /\ response.status = 200
               /\ response.body = "results"
               /\ response.results = <<>>
               /\ response.total = 0

\* the event query settled with an empty list
NoEventsAnswered ==
    /\ pc = "done"
    /\ Len(log) = 2
    /\ log[2].q = "events" /\ log[2].ok /\ log[2].count = 0
    /\ response.status = 200

----------------------------------------------------------------------------
(* C10: at most one query of a request is in flight at any time, and the   *)
(* per-event query of an event is in flight only when the queries of all   *)
(* earlier events have settled successfully and the rows accumulated from  *)
(* them are below the cap.                                                 *)
QueriesAreSequential ==
    /\ Cardinality(inflight) <= 1
    /\ \A x \in inflight :
          x.q = "perEvent"
              => \E k \in DOMAIN eventIds :
                    /\ x.arg = eventIds[k]
                    /\ \A j \in 1 .. (k - 1) :
                          \E i \in DOMAIN log :
                              log[i].q = "perEvent" /\ log[i].arg = eventIds[j] /\ log[i].ok
                    /\ \A i \in DOMAIN log : ~(log[i].q = "perEvent" /\ log[i].arg = x.arg)
                    /\ Length(aggregated) = PerEventRowsUpTo(Len(log))
                    /\ Length(aggregated) < 10000

\* the query of the third event is in flight, two results are accumulated
ThirdPerEventQueryInFlight ==
    /\ pc = "perEvent"
    /\ idx = 3
    /\ inflight = {Query("perEvent", eventIds[3])}
    /\ Length(aggregated) = 2

----------------------------------------------------------------------------
\* the three tiers each hit the statement timeout
AllTiersTimedOut ==
    /\ \E i \in DOMAIN log : log[i].q = "bulk" /\ TimedOut(log[i])
    /\ \E i \in DOMAIN log : log[i].q = "perEvent" /\ TimedOut(log[i])
    /\ \E i \in DOMAIN log : log[i].q = "noSeats" /\ TimedOut(log[i])

\* the response is the generic 500 failure
Generic500 ==
    /\ response.status = 500
    /\ response.body = "error"
    /\ response.error = "Failed to fetch attendees list"

(* C11 as stated: a statement-timeout error reaches the HTTP caller only   *)
(* when the bulk, a per-event and the attendee-only query all timed out,   *)
(* and the response is then the generic 500 failure.                       *)
TimeoutSurfacesOnlyAfterAllTiers ==
    (response.body = "error" /\ error.code = "57014")
        => AllTiersTimedOut /\ Generic500

(* C11 as amended: a statement timeout of the bulk query or of a per-event *)
(* query is never surfaced (the next tier is tried); a surfaced statement  *)
(* timeout is that of the test query, of the event query, or of the        *)
(* attendee-only query after all three tiers timed out; and the response   *)
(* is then the generic 500 failure.                                        *)
TimeoutSurfacesOutsideTiersOrAfterAll ==
    /\ \A i \in DOMAIN log :
          (log[i].q \in {"bulk", "perEvent"} /\ TimedOut(log[i])) => ~LastQuery(i)
    /\ (response.body = "error" /\ error.code = "57014")
          => /\ Generic500
             /\ TimedOut(log[Len(log)])
             /\ \/ log[Len(log)].q \in {"test", "events"}
                \/ log[Len(log)].q = "noSeats" /\ AllTiersTimedOut

\* the statement timeout is answered with 500 after the three tiers timed out
TimeoutAnsweredAfterAllTiers ==
    /\ pc = "done"
    /\ AllTiersTimedOut
    /\ error.code = "57014"
    /\ Generic500

----------------------------------------------------------------------------
(* C12: a failed request is answered with status 503 exactly when the      *)
(* failure is a failure to reach the data store, and with status 500 for   *)
(* every other failure.                                                    *)
StatusFollowsConnectivity ==
    response.body = "error"
        => /\ (response.status = 503) = error.connectivity
           /\ (response.status = 500) = ~error.connectivity

----------------------------------------------------------------------------
\* a query failed and nothing was tried after it
RequestFailed ==
    /\ Len(log) > 0
    /\ ~log[Len(log)].ok
    /\ LastQuery(Len(log))

\* the request is answered only when the handler has finished, and a failed
\* request is answered with a failure body that carries no rows
FailureHasNoRows ==
    /\ (response # NoResponse) = (pc = "done")
    /\ RequestFailed
          => /\ response.body = "error"
             /\ response.status \in {500, 503}
             /\ response.results = <<>>
             /\ response.total = 0
             /\ ~fetched.set

----------------------------------------------------------------------------
(* C18 as stated: in a failure response the details field is absent when   *)
(* NODE_ENV is "production" and carries the error message in every other   *)
(* environment.                                                            *)
DetailsOutsideProduction ==
    response.body = "error"
        => /\ NODE_ENV = "production" => response.details = "undefined"
           /\ NODE_ENV # "production" => response.details = error.message

(* C18 as amended: in a failure response the details field is present      *)
(* exactly when NODE_ENV is "development"; it then carries the message of  *)
(* the error, or "Unknown error" in the 500 body when the thrown value is  *)
(* not an Error.  In production and in any other environment it is absent. *)
DetailsOnlyInDevelopment ==
    response.body = "error"
        => /\ NODE_ENV # "development" => response.details = "undefined"
           /\ NODE_ENV = "development"
                 => response.details =
                        (IF error.instanceofError THEN error.message ELSE "Unknown error")

\* a failure answered outside production and outside development
FailureInTestEnvironment ==
    /\ pc = "done"
    /\ NODE_ENV = "test"
    /\ response.status = 500
    /\ error.instanceofError
    /\ response.details = "undefined"

----------------------------------------------------------------------------
(* The event query (step 2 of GET) over the contents of the store          *)
(*                                                                         *)
(* db.events: a set of [id, user_id, name, start_at]; a name is a sequence *)
(* of words, start_at an instant counted in hours (UTC).                   *)
(* db.attendees: records [id, event_id, deleted].                          *)
(* db.guests: records [id, event_attendee_id, seat].                       *)

\* number of events in the store
NumStoredEvents == 2

\* UPPER(word)
Upper(w) ==
    CASE w \in {"Polar", "polar", "POLAR"} -> "POLAR"
      [] w \in {"Express", "express", "EXPRESS"} -> "EXPRESS"
      [] w \in {"Parking", "parking", "PARKING"} -> "PARKING"
      [] w \in {"Santa", "SANTA"} -> "SANTA"
      [] OTHER -> w

\* UPPER(e.name)
UPPER(name) == [i \in DOMAIN name |-> Upper(name[i])]

\* name LIKE '%pattern%': the words of the pattern occur in a row in the name
LIKE(name, pattern) ==
    \E i \in 1 .. (Len(name) - Len(pattern) + 1) :
        SubSeq(name, i, i + Len(pattern) - 1) = pattern

\* the offset of America/Chicago from UTC in hours (standard time)
ChicagoOffset(t) == 6

\* (t AT TIME ZONE 'UTC') AT TIME ZONE 'America/Chicago': the local hour count
AtChicago(t) == t - ChicagoOffset(t)

\* (...)::date: the calendar day of a local hour count
DateOfLocal(h) == h \div 24

\* to_char(..., 'MM/DD/YYYY, HH12:MI AM'): the local day and hour
start_at_formatted(t) ==
    [day |-> DateOfLocal(AtChicago(t)), hour |-> AtChicago(t) % 24]

\* a name filter that forgets UPPER
NameMatches_caseSensitive(name) ==
    /\ LIKE(name, <<"POLAR", "EXPRESS">>)
    /\ ~LIKE(name, <<"PARKING">>)

\* UPPER(e.name) LIKE '%POLAR EXPRESS%' AND UPPER(e.name) NOT LIKE '%PARKING%'
NameMatches(name) ==
    /\ LIKE(UPPER(name), <<"POLAR", "EXPRESS">>)
    /\ ~LIKE(UPPER(name), <<"PARKING">>)

\* a date filter on the UTC day
DateMatches_utc(t, date) ==
    date.given => DateOfLocal(t) = date.day

\* the optional clause on the Chicago calendar day of start_at
DateMatches(t, date) ==
    date.given => DateOfLocal(AtChicago(t)) = date.day

\* FROM events e INNER JOIN event_attendees ea ON ea.event_id = e.id WHERE ...
EventJoin(d, date) ==
    { p \in d.events \X d.attendees :
        /\ p[2].event_id = p[1].id
        /\ p[1].user_id = HOST_USER_ID
        /\ ~p[2].deleted
        /\ NameMatches(p[1].name)
        /\ DateMatches(p[1].start_at, date) }

\* the selected columns of an event with its COUNT(ea.id)
EventRow(e, count) ==
    [id |-> e.id, name |-> e.name, start_at |-> e.start_at,
     start_at_formatted |-> start_at_formatted(e.start_at),
     attendee_count |-> count]

\* the join without GROUP BY and DISTINCT: one row per attendee
EventGroups_ungrouped(d, date) ==
    { EventRow(p[1], p[2].id) : p \in EventJoin(d, date) }

\* SELECT DISTINCT ... GROUP BY e.id, e.name, e.start_at HAVING COUNT(ea.id) > 0
EventGroups(d, date) ==
    { g \in { EventRow(e, Cardinality({p \in EventJoin(d, date) : p[1] = e})) :
                e \in {p[1] : p \in EventJoin(d, date)} } :
        g.attendee_count > 0 }

\* ORDER BY e.start_at DESC: the orders of the rows the store may answer with
OrderByStartDesc(S) ==
    { s \in [1 .. Cardinality(S) -> S] :
        /\ \A i, j \in DOMAIN s : s[i] = s[j] => i = j
        /\ \A i, j \in DOMAIN s : i < j => s[i].start_at >= s[j].start_at }

\* the results eventQuery can have on the store d
eventQuery(d, date) == OrderByStartDesc(EventGroups(d, date))

----------------------------------------------------------------------------
(* Stores to resolve events on *)

\* the instants events start at: 05:00 and 25:00 and 30:00 UTC of day 0, which
\* are 23:00 of the day before, 19:00 of day 0 and 00:00 of day 1 in Chicago
Starts == {5, 25, 30}

EventNames ==
    { <<"Polar", "Express">>, <<"POLAR", "EXPRESS", "Parking">>, <<"Santa", "Train">> }

\* an event has no attendee, a deleted one, or two that are not deleted
AttendeeStates == {"none", "deleted", "two"}

EventShapes ==
    [user_id : {HOST_USER_ID, HOST_USER_ID + 1}, name : EventNames,
     start_at : Starts, att : AttendeeStates]

AttendeesOfShape(i, att) ==
    CASE att = "none" -> {}
      [] att = "deleted" -> {[id |-> 2 * i - 1, event_id |-> i, deleted |-> TRUE]}
      [] OTHER -> {[id |-> 2 * i - 1, event_id |-> i, deleted |-> FALSE],
                   [id |-> 2 * i, event_id |-> i, deleted |-> FALSE]}

StoreOfShapes(f) ==
    [events |-> { [id |-> i, user_id |-> f[i].user_id, name |-> f[i].name,
                   start_at |-> f[i].start_at] : i \in DOMAIN f },
     attendees |-> UNION { AttendeesOfShape(i, f[i].att) : i \in DOMAIN f },
     guests |-> {}]

EventStores == { StoreOfShapes(f) : f \in [1 .. NumStoredEvents -> EventShapes] }

\* the request handler is not running
RequestIdle ==
    /\ pc = "idle"
    /\ inflight = {}
    /\ eventIds = <<>>
    /\ idx = 0
    /\ aggregated = <<>>
    /\ fetched = NoResult
    /\ error = NoError
    /\ response = NoResponse
    /\ log = <<>>
    /\ NODE_ENV = "production"

InitEvents ==
    /\ RequestIdle
    /\ db \in EventStores
    /\ dateParam \in {NoDate, DateOf(0)}
    /\ answer = NoAnswer
    /\ RowIdle
    /\ ClientIdle

\* step 2 of GET on the store: eventResult
ResolveEvents ==
    /\ answer.op = "none"
    /\ \E s \in eventQuery(db, dateParam) :
          answer' = [op |-> "events", events |-> s, rows |-> <<>>, flag |-> FALSE]
    /\ UNCHANGED <<db, dateParam, request, rowVars, clientVars>>

NextEvents == ResolveEvents

SpecEvents == InitEvents /\ [][NextEvents]_vars

----------------------------------------------------------------------------
\* lower case of a word
Fold(w) ==
    CASE w \in {"Polar", "polar", "POLAR"} -> "polar"
      [] w \in {"Express", "express", "EXPRESS"} -> "express"
      [] w \in {"Parking", "parking", "PARKING"} -> "parking"
      [] OTHER -> w

\* the name contains the phrase, whatever the case of the letters
ContainsIgnoringCase(name, phrase) ==
    \E i \in 1 .. Len(name) :
        /\ i + Len(phrase) - 1 <= Len(name)
        /\ \A k \in 1 .. Len(phrase) : Fold(name[i + k - 1]) = Fold(phrase[k])

\* the instant t lies on calendar day `day` in Chicago: midnight there is 06:00 UTC
OnChicagoDay(t, day) == 24 * day + 6 <= t /\ t < 24 * (day + 1) + 6

\* the event qualifies for the request
Qualifies(e) ==
    /\ e.user_id = 9835080
    /\ ContainsIgnoringCase(e.name, <<"polar", "express">>)
    /\ ~ContainsIgnoringCase(e.name, <<"parking">>)
    /\ \E a \in db.attendees : a.event_id = e.id /\ ~a.deleted
    /\ dateParam.given => OnChicagoDay(e.start_at, dateParam.day)

(* C17: the event query answers with exactly the events of the fixed host  *)
(* whose name contains "polar express" and not "parking" (in any case of   *)
(* letters), that have an attendee who is not deleted and, when a date is  *)
(* given, that start on that calendar day in Chicago; each of them once,   *)
(* the latest start first.                                                 *)
ResolverReturnsQualifyingEvents ==
    answer.op = "events"
        => /\ {answer.events[i].id : i \in DOMAIN answer.events}
                 = {e.id : e \in {x \in db.events : Qualifies(x)}}
           /\ \A i, j \in DOMAIN answer.events :
                 answer.events[i].id = answer.events[j].id => i = j
           /\ \A i, j \in DOMAIN answer.events :
                 i < j => answer.events[i].start_at >= answer.events[j].start_at

\* with a date given, one event is kept and one that starts on the same UTC
\* day but on another Chicago day is left out
ResolvedOneOfTwoByDate ==
    /\ answer.op = "events"
    /\ dateParam.given
    /\ Len(answer.events) = 1
    /\ answer.events[1].attendee_count = 2
    /\ \E e \in db.events :
          /\ e.start_at = 30
          /\ e.user_id = 9835080 /\ e.name = <<"Polar", "Express">>
          /\ \E a \in db.attendees : a.event_id = e.id /\ ~a.deleted

----------------------------------------------------------------------------
(* The attendee queries over the contents of the store                     *)
(*                                                                         *)
(* A row of a result is kept as a run of one row (lo = hi = 1), so that    *)
(* Length, Slice, Push and NullSeats apply to it as they stand.            *)

\* number of attendees in the store
MaxAttendees == 2

\* number of seat assignments (attendee_guests) an attendee can have
MaxSeats == 2

\* the seat assignments of attendee a
GuestsOf(d, a) == { g \in d.guests : g.event_attendee_id = a.id }

\* WHERE ea.event_id = ANY($1) AND ea.deleted_at IS NULL
Selected(d, ids) ==
    { a \in d.attendees : a.event_id \in ids /\ ~a.deleted }

JoinedRow(a, guest_id, seat) ==
    [attendee_id |-> a.id, event_id |-> a.event_id, guest_id |-> guest_id,
     seat |-> seat, lo |-> 1, hi |-> 1]

\* an INNER JOIN: attendees without a seat assignment give no row
LeftJoin_inner(d, ids) ==
    { JoinedRow(p[1], p[2].id, "value") :
        p \in { q \in Selected(d, ids) \X d.guests : q[2].event_attendee_id = q[1].id } }

\* FROM event_attendees ea LEFT JOIN attendee_guests ag ON ag.event_attendee_id = ea.id
LeftJoin(d, ids) ==
    { JoinedRow(p[1], p[2].id, "value") :
        p \in { q \in Selected(d, ids) \X d.guests : q[2].event_attendee_id = q[1].id } }
    \cup { JoinedRow(a, 0, "null") : a \in { x \in Selected(d, ids) : GuestsOf(d, x) = {} } }

\* a slip in the direction of the second key: ea.id ascending
Before_attendeeAscending(r1, r2) ==
    \/ r1.event_id > r2.event_id
    \/ r1.event_id = r2.event_id /\ r1.attendee_id < r2.attendee_id
    \/ r1.event_id = r2.event_id /\ r1.attendee_id = r2.attendee_id
          /\ r1.guest_id < r2.guest_id

\* ORDER BY ea.event_id DESC, ea.id DESC, ag.id
Before(r1, r2) ==
    \/ r1.event_id > r2.event_id
    \/ r1.event_id = r2.event_id /\ r1.attendee_id > r2.attendee_id
    \/ r1.event_id = r2.event_id /\ r1.attendee_id = r2.attendee_id
          /\ r1.guest_id < r2.guest_id

RECURSIVE OrderBy(_)
OrderBy(S) ==
    IF S = {} THEN <<>>
    ELSE LET first == CHOOSE r \in S : \A o \in S \ {r} : Before(r, o)
         IN  <<first>> \o OrderBy(S \ {first})

\* COMBINED_ATTENDEE_QUERY with $1 = ids, on the store d
CombinedRows(d, ids) ==
    LET rows == OrderBy(LeftJoin(d, ids))
    IN  Slice(rows, LIMIT(Length(rows), MAX_ATTENDEE_ROWS))

\* COMBINED_ATTENDEE_QUERY_PER_EVENT with $1 = eventId, on the store d
PerEventRows(d, eventId) ==
    LET rows == OrderBy(LeftJoin(d, {eventId}))
    IN  Slice(rows, LIMIT(Length(rows), MAX_ATTENDEE_ROWS))

\* ATTENDEE_FALLBACK_QUERY with $1 = ids, on the store d
FallbackRows(d, ids) ==
    LET rows == OrderBy({ JoinedRow(a, 0, "absent") : a \in Selected(d, ids) })
    IN  Slice(rows, LIMIT(Length(rows), MAX_ATTENDEE_ROWS))

\* the loop of fetchAttendeesPerEvent from the i-th event on, no query failing
RECURSIVE PerEventLoop(_, _, _, _)
PerEventLoop(d, ids, i, agg) ==
    IF i > Len(ids) THEN agg
    ELSE LET next == Push(agg, PerEventRows(d, ids[i]))
         IN  IF CapReached(next) THEN Slice(next, MAX_ATTENDEE_ROWS)
             ELSE PerEventLoop(d, ids, i + 1, next)

----------------------------------------------------------------------------
(* Stores to fetch attendees from *)

AttendeeShapes ==
    [event_id : 1 .. NumStoredEvents, deleted : BOOLEAN, seats : 0 .. MaxSeats]

StoreOfAttendees(f) ==
    [events |-> {},
     attendees |-> { [id |-> i, event_id |-> f[i].event_id, deleted |-> f[i].deleted] :
                       i \in DOMAIN f },
     guests |-> UNION { { [id |-> (i - 1) * MaxSeats + k, event_attendee_id |-> i,
                           seat |-> "value"] : k \in 1 .. f[i].seats } : i \in DOMAIN f }]

AttendeeStores == { StoreOfAttendees(f) : f \in [1 .. MaxAttendees -> AttendeeShapes] }

\* the identifiers of the qualifying events, as the event query ordered them
QualifyingLists ==
    { s \in UNION { [1 .. n -> 1 .. NumStoredEvents] : n \in 1 .. NumStoredEvents } :
        IsInjective(s) }

InitAttendees ==
    /\ pc = "idle"
    /\ inflight = {}
    /\ eventIds \in QualifyingLists
    /\ idx = 0
    /\ aggregated = <<>>
    /\ fetched = NoResult
    /\ error = NoError
    /\ response = NoResponse
    /\ log = <<>>
    /\ NODE_ENV = "production"
    /\ db \in AttendeeStores
    /\ dateParam = NoDate
    /\ answer = NoAnswer
    /\ RowIdle
    /\ ClientIdle

Answered(op, rows, flag) ==
    /\ answer.op = "none"
    /\ answer' = [op |-> op, events |-> <<>>, rows |-> rows, flag |-> flag]
    /\ UNCHANGED <<db, dateParam, request, rowVars, clientVars>>

\* fetchAttendeesWithFallback when the bulk query succeeds
FetchBulk == Answered("bulk", CombinedRows(db, Range(eventIds)), TRUE)

\* fetchAttendeesWithFallback when the bulk query times out and no per-event query fails
FetchPerEvent == Answered("perEvent", PerEventLoop(db, eventIds, 1, <<>>), TRUE)

\* fetchAttendeesWithFallback when the bulk and a per-event query time out
FetchNoSeats ==
    Answered("noSeats", NullSeats(FallbackRows(db, Range(eventIds))), FALSE)

NextAttendees ==
    \/ FetchBulk
    \/ FetchPerEvent
    \/ FetchNoSeats

SpecAttendees == InitAttendees /\ [][NextAttendees]_vars

----------------------------------------------------------------------------
\* the attendees the request is about: not deleted, of a qualifying event
QualifyingAttendees ==
    { a \in db.attendees : ~a.deleted /\ a.event_id \in Range(eventIds) }

\* the number of rows of the answer that show attendee a with seat assignment g
\* (g = 0: with no seat assignment)
RowsShowing(a, g) ==
    Cardinality({ i \in DOMAIN answer.rows :
                    /\ answer.rows[i].attendee_id = a.id
                    /\ answer.rows[i].guest_id = g })

\* one row per (attendee, seat assignment), one seatless row per attendee
\* without seat assignment, and no other row
OneRowPerPair ==
    /\ \A a \in QualifyingAttendees :
          /\ \A g \in GuestsOf(db, a) : RowsShowing(a, g.id) = 1
          /\ GuestsOf(db, a) = {}
                => /\ RowsShowing(a, 0) = 1
                   /\ \A i \in DOMAIN answer.rows :
                         answer.rows[i].attendee_id = a.id => answer.rows[i].seat = "null"
    /\ \A i \in DOMAIN answer.rows :
          \E a \in QualifyingAttendees :
              /\ answer.rows[i].attendee_id = a.id
              /\ \/ answer.rows[i].guest_id \in { g.id : g \in GuestsOf(db, a) }
                 \/ answer.rows[i].guest_id = 0 /\ GuestsOf(db, a) = {}

\* one seatless row per attendee, and no other row
OneSeatlessRowPerAttendee ==
    /\ \A a \in QualifyingAttendees : RowsShowing(a, 0) = 1
    /\ \A i \in DOMAIN answer.rows :
          /\ answer.rows[i].seat = "null"
          /\ \E a \in QualifyingAttendees : answer.rows[i].attendee_id = a.id
    /\ Len(answer.rows) = Cardinality(QualifyingAttendees)

\* the number of (attendee, seat assignment-or-none) pairs of the request
PairCount ==
    Cardinality({ g \in db.guests :
                    \E a \in QualifyingAttendees : g.event_attendee_id = a.id })
    + Cardinality({ a \in QualifyingAttendees : GuestsOf(db, a) = {} })

(* C14 as stated: the result of a request has exactly one row for every    *)
(* (attendee, seat assignment) pair of the qualifying attendees, and       *)
(* exactly one row with absent seat fields for every qualifying attendee   *)
(* without seat assignment.                                                *)
ResultHasOneRowPerPair ==
    answer.op \in {"bulk", "perEvent", "noSeats"} => OneRowPerPair

(* C14 as amended: when the rows come from the bulk or the per-event tier  *)
(* and the pairs number at most MAX_ATTENDEE_ROWS, the result has exactly  *)
(* one row per (attendee, seat assignment) pair and exactly one row with   *)
(* absent seat fields per attendee without seat assignment; when they come *)
(* from the attendee-only tier it has exactly one row with absent seat     *)
(* fields per attendee, whatever the seat assignments.                     *)
JoinedTiersHaveOneRowPerPair ==
    /\ (answer.op \in {"bulk", "perEvent"} /\ PairCount <= 10000) => OneRowPerPair
    /\ (answer.op = "noSeats" /\ Cardinality(QualifyingAttendees) <= 10000)
          => OneSeatlessRowPerAttendee

\* the per-event tier answers for an attendee with two seat assignments and
\* one with none
PerEventRowsForSeatedAndSeatless ==
    /\ answer.op = "perEvent"
    /\ Len(eventIds) = 2
    /\ Cardinality(QualifyingAttendees) = 2
    /\ PairCount = 3
    /\ Len(answer.rows) = 3
    /\ \E i \in DOMAIN answer.rows : answer.rows[i].guest_id = 0

----------------------------------------------------------------------------
(* Row projection: the two maps of GET applied to one fetched row          *)
(*                                                                         *)
(* row: [first_name, last_name, seat_id, seat_obj, checkin_timestamp,      *)
(* start_at_formatted]; start_at_formatted is that of the event found for  *)
(* row.event_id, null when eventResult.find finds none.                    *)

\* number of components a structured seat description can have
MaxComponents == 2

\* a component { label, value } of seat_obj.components
Component(label, value) == [label |-> label, value |-> value]

SeatComponents ==
    { Component(<<"C", "a", "r">>, <<"4">>), Component(<<"S", "e", "a", "t">>, <<"2", "5">>) }

\* seat_obj: null, an object without components, or one with a list of them
NoSeatObj == [null |-> TRUE, hasComponents |-> FALSE, components |-> <<>>]
SeatObjWithout == [null |-> FALSE, hasComponents |-> FALSE, components |-> <<>>]
SeatObjWith(cs) == [null |-> FALSE, hasComponents |-> TRUE, components |-> cs]

SeatObjs ==
    {NoSeatObj, SeatObjWithout}
    \cup { SeatObjWith(cs) :
             cs \in UNION { [1 .. n -> SeatComponents] : n \in 0 .. MaxComponents } }

RawRows ==
    [first_name : {Null, Str(<<>>), Str(<<"A", "n", "a">>)},
     last_name : {Null, Str(<<>>), Str(<<"L", "e", "e">>)},
     seat_id : {Null, Str(<<>>), Str(<<"C", "A", "R", " ", "4">>)},
     seat_obj : SeatObjs,
     checkin_timestamp : {Null, Str(<<"9", "P", "M">>)},
     start_at_formatted : {Null, Str(<<"7", "P", "M">>)}]

\* strings.join(sep)
RECURSIVE Join(_, _)
Join(strings, sep) ==
    IF strings = <<>> THEN <<>>
    ELSE IF Len(strings) = 1 THEN strings[1]
    ELSE strings[1] \o sep \o Join(Tail(strings), sep)

\* `${comp.label}: ${comp.value}`
ComponentText(comp) == comp.label \o <<":", " ">> \o comp.value

\* a slip that tests seat_id for null only
seatInfo_notNull(r) ==
    IF ~r.seat_id.null THEN r.seat_id
    ELSE IF ~r.seat_obj.null /\ r.seat_obj.hasComponents /\ Len(r.seat_obj.components) > 0
    THEN Str(Join([i \in DOMAIN r.seat_obj.components |->
                     ComponentText(r.seat_obj.components[i])], <<",", " ">>))
    ELSE Null

\* seatInfo: seat_id if truthy, else the components joined, else null
seatInfo(r) ==
    IF Truthy(r.seat_id) THEN r.seat_id
    ELSE IF ~r.seat_obj.null /\ r.seat_obj.hasComponents /\ Len(r.seat_obj.components) > 0
    THEN Str(Join([i \in DOMAIN r.seat_obj.components |->
                     ComponentText(r.seat_obj.components[i])], <<",", " ">>))
    ELSE Null

\* a || b on string values
OrElse(a, b) == IF Truthy(a) THEN a ELSE b

\* a slip that falls back on null only (??), not on the empty string
attendeeName_nullish(r) ==
    IF Truthy(r.first_name) /\ Truthy(r.last_name)
    THEN Str(r.first_name.s \o <<" ">> \o r.last_name.s)
    ELSE IF ~r.first_name.null THEN r.first_name
    ELSE IF ~r.last_name.null THEN r.last_name
    ELSE Str(<<"U", "n", "k", "n", "o", "w", "n">>)

\* attendeeName: "first last", or first || last || "Unknown"
attendeeName(r) ==
    IF Truthy(r.first_name) /\ Truthy(r.last_name)
    THEN Str(r.first_name.s \o <<" ">> \o r.last_name.s)
    ELSE OrElse(r.first_name, OrElse(r.last_name, Str(<<"U", "n", "k", "n", "o", "w", "n">>)))

\* eventStartTime: eventInfo?.start_at_formatted || "-", and again || "-"
eventStartTime(r) == OrElse(OrElse(r.start_at_formatted, Str(<<"-">>)), Str(<<"-">>))

\* an element of transformedResults
TransformRow(r) ==
    [eventStartTime |-> eventStartTime(r),
     attendeeName |-> attendeeName(r),
     seatInfo |-> seatInfo(r),
     validatedAt |-> r.checkin_timestamp]

InitRow ==
    /\ RequestIdle
    /\ StoreIdle
    /\ ClientIdle
    /\ row \in RawRows
    /\ shown = <<>>

\* the row is projected
Transform ==
    /\ shown = <<>>
    /\ shown' = TransformRow(row)
    /\ UNCHANGED <<row, request, storeVars, clientVars>>

NextRow == Transform

SpecRow == InitRow /\ [][NextRow]_vars

----------------------------------------------------------------------------
\* the "label: value" texts of the first n components, joined with ", "
RECURSIVE PairsUpTo(_, _)
PairsUpTo(cs, n) ==
    IF n = 0 THEN <<>>
    ELSE (IF n = 1 THEN <<>> ELSE PairsUpTo(cs, n - 1) \o <<",", " ">>)
         \o cs[n].label \o <<":", " ">> \o cs[n].value

Projected == shown # <<>>

(* C15: the seat display string is the raw seat identifier when that is    *)
(* present and not empty; otherwise, when the structured description has   *)
(* at least one component, the "label: value" pairs of the components in   *)
(* their order, joined with ", "; otherwise null.                          *)
SeatInfoResolution ==
    Projected
        => IF ~row.seat_id.null /\ Len(row.seat_id.s) > 0
           THEN shown.seatInfo = row.seat_id
           ELSE IF Len(row.seat_obj.components) >= 1
           THEN /\ ~shown.seatInfo.null
                /\ shown.seatInfo.s
                     = PairsUpTo(row.seat_obj.components, Len(row.seat_obj.components))
           ELSE shown.seatInfo.null

\* an empty seat identifier and two components: "Seat: 25, Car: 4"
SeatInfoFromTwoComponents ==
    /\ Projected
    /\ ~row.seat_id.null /\ row.seat_id.s = <<>>
    /\ Len(row.seat_obj.components) = 2
    /\ shown.seatInfo.s = <<"S", "e", "a", "t", ":", " ", "2", "5", ",", " ",
                            "C", "a", "r", ":", " ", "4">>

----------------------------------------------------------------------------
\* the name field is given: neither null nor empty
Present(v) == ~v.null /\ Len(v.s) > 0

(* C16: the attendee display name is "first last" when both names are      *)
(* present, the one that is present when only one is, and "Unknown" when   *)
(* none is; it is never null and never empty.                              *)
AttendeeNameResolution ==
    Projected
        => /\ ~shown.attendeeName.null
           /\ Len(shown.attendeeName.s) > 0
           /\ (Present(row.first_name) /\ Present(row.last_name))
                 => shown.attendeeName.s = row.first_name.s \o <<" ">> \o row.last_name.s
           /\ (Present(row.first_name) /\ ~Present(row.last_name))
                 => shown.attendeeName = row.first_name
           /\ (~Present(row.first_name) /\ Present(row.last_name))
                 => shown.attendeeName = row.last_name
           /\ (~Present(row.first_name) /\ ~Present(row.last_name))
                 => shown.attendeeName.s = <<"U", "n", "k", "n", "o", "w", "n">>

\* an empty first name and a null last name give "Unknown"
UnknownForEmptyAndNull ==
    /\ Projected
    /\ ~row.first_name.null /\ row.first_name.s = <<>>
    /\ row.last_name.null
    /\ shown.attendeeName.s = <<"U", "n", "k", "n", "o", "w", "n">>

----------------------------------------------------------------------------
(* The dashboard: what a render makes of results and searchQuery           *)
(*                                                                         *)
(* A row of results is an AttendeeResult [eventStartTime, attendeeName,    *)
(* seatInfo, validatedAt]; event_id is not sent to the dashboard and is    *)
(* kept here only to tell the rows of different events apart.              *)

\* number of rows the dashboard holds
MaxRows == 2

UpperCaseLetters ==
    <<"A", "B", "C", "D", "E", "F", "G", "H", "I", "J", "K", "L", "M",
      "N", "O", "P", "Q", "R", "S", "T", "U", "V", "W", "X", "Y", "Z">>

LowerCaseLetters ==
    <<"a", "b", "c", "d", "e", "f", "g", "h", "i", "j", "k", "l", "m",
      "n", "o", "p", "q", "r", "s", "t", "u", "v", "w", "x", "y", "z">>

\* String.prototype.toLowerCase on one character and on a string
LowerCase(c) ==
    IF \E i \in DOMAIN UpperCaseLetters : UpperCaseLetters[i] = c
    THEN LowerCaseLetters[CHOOSE i \in DOMAIN UpperCaseLetters : UpperCaseLetters[i] = c]
    ELSE c

toLowerCase(str) == [i \in DOMAIN str |-> LowerCase(str[i])]

\* white space, as trim and \s see it
IsSpace(c) == c = " "

\* String.prototype.trim
RECURSIVE trimStart(_)
trimStart(str) ==
    IF str # <<>> /\ IsSpace(Head(str)) THEN trimStart(Tail(str)) ELSE str

RECURSIVE trimEnd(_)
trimEnd(str) ==
    IF str # <<>> /\ IsSpace(str[Len(str)])
    THEN trimEnd(SubSeq(str, 1, Len(str) - 1))
    ELSE str

trim(str) == trimEnd(trimStart(str))

\* String.prototype.includes
includes(str, search) ==
    \E i \in 0 .. Len(str) :
        /\ i + Len(search) <= Len(str)
        /\ SubSeq(str, i + 1, i + Len(search)) = search

\* a filter that compares without lowering the case
Keeps_caseSensitive(result, q) ==
    IF trim(q) = <<>> THEN TRUE
    ELSE includes(result.attendeeName.s, q)

\* the callback of results.filter
Keeps(result, q) ==
    IF trim(q) = <<>> THEN TRUE
    ELSE includes(toLowerCase(result.attendeeName.s), toLowerCase(q))

filteredResults(rs, q) == SelectSeq(rs, LAMBDA result : Keeps(result, q))

\* a GroupedEvent
GroupedEvent(time, attendees) == [eventStartTime |-> time, attendees |-> attendees]

\* a reducer that opens a group for every row
Reducer_always(acc, result) ==
    acc \o <<GroupedEvent(result.eventStartTime, <<result>>)>>

\* the callback of filteredResults.reduce: push to the group found, or open one
Reducer(acc, result) ==
    IF \E g \in DOMAIN acc : acc[g].eventStartTime = result.eventStartTime
    THEN LET g == CHOOSE g \in DOMAIN acc :
                      /\ acc[g].eventStartTime = result.eventStartTime
                      /\ \A h \in 1 .. (g - 1) :
                             acc[h].eventStartTime # result.eventStartTime
         IN  [acc EXCEPT ![g].attendees = Append(@, result)]
    ELSE acc \o <<GroupedEvent(result.eventStartTime, <<result>>)>>

RECURSIVE Reduce(_, _)
Reduce(rs, acc) ==
    IF rs = <<>> THEN acc ELSE Reduce(Tail(rs), Reducer(acc, Head(rs)))

DigitCharacters == <<"0", "1", "2", "3", "4", "5", "6", "7", "8", "9">>

IsDigit(c) == \E i \in DOMAIN DigitCharacters : DigitCharacters[i] = c

DigitValue(c) == (CHOOSE i \in DOMAIN DigitCharacters : DigitCharacters[i] = c) - 1

\* parseInt(digits, 10) on a string of digits
RECURSIVE parseInt(_)
parseInt(digits) ==
    IF digits = <<>> THEN 0
    ELSE 10 * parseInt(SubSeq(digits, 1, Len(digits) - 1)) + DigitValue(digits[Len(digits)])

\* \s* and \d+ from position i: the position after the longest run
RECURSIVE AfterSpaces(_, _)
AfterSpaces(str, i) ==
    IF i <= Len(str) /\ IsSpace(str[i]) THEN AfterSpaces(str, i + 1) ELSE i

RECURSIVE AfterDigits(_, _)
AfterDigits(str, i) ==
    IF i <= Len(str) /\ IsDigit(str[i]) THEN AfterDigits(str, i + 1) ELSE i

\* the word stands at position i, whatever the case (flag i)
WordAt(str, i, word) ==
    /\ i + Len(word) - 1 <= Len(str)
    /\ \A k \in DOMAIN word : LowerCase(str[i + k - 1]) = LowerCase(word[k])

Infinity == [finite |-> FALSE, n |-> 0]
Finite(n) == [finite |-> TRUE, n |-> n]

NoMatch == [matched |-> FALSE, car |-> <<>>, seat |-> <<>>]

\* /CAR\s*(\d+)\s*-?\s*(Seat|Table)\s+(\d+)/i tried at position i
MatchAt(str, i) ==
    LET carFrom == AfterSpaces(str, i + 3)
        carTo == AfterDigits(str, carFrom)
        dash == AfterSpaces(str, carTo)
        afterDash == IF dash <= Len(str) /\ str[dash] = "-" THEN dash + 1 ELSE dash
        word == AfterSpaces(str, afterDash)
        afterWord == IF WordAt(str, word, <<"S", "e", "a", "t">>) THEN word + 4
                     ELSE IF WordAt(str, word, <<"T", "a", "b", "l", "e">>) THEN word + 5
                     ELSE 0
        seatFrom == AfterSpaces(str, afterWord)
        seatTo == AfterDigits(str, seatFrom)
    IN  IF /\ WordAt(str, i, <<"C", "A", "R">>)
           /\ carTo > carFrom
           /\ afterWord > 0
           /\ seatFrom > afterWord
           /\ seatTo > seatFrom
        THEN [matched |-> TRUE,
              car |-> SubSeq(str, carFrom, carTo - 1),
              seat |-> SubSeq(str, seatFrom, seatTo - 1)]
        ELSE NoMatch

\* seatInfo.match(...): the leftmost match
Match(str) ==
    IF \E i \in DOMAIN str : MatchAt(str, i).matched
    THEN MatchAt(str, CHOOSE i \in DOMAIN str :
                          /\ MatchAt(str, i).matched
                          /\ \A j \in 1 .. (i - 1) : ~MatchAt(str, j).matched)
    ELSE NoMatch

parseSeatId(seat) ==
    IF ~Truthy(seat) THEN [car |-> Infinity, seat |-> Infinity]
    ELSE IF Match(seat.s).matched
    THEN [car |-> Finite(parseInt(Match(seat.s).car)),
          seat |-> Finite(parseInt(Match(seat.s).seat))]
    ELSE [car |-> Infinity, seat |-> Infinity]

\* x - y > 0 on numbers that may be Infinity; Infinity - Infinity is NaN, not > 0
Positive(x, y) ==
    IF x.finite /\ y.finite THEN x.n > y.n
    ELSE ~x.finite /\ y.finite

\* a comparator that compares the car numbers only
SeatAfter_carOnly(a, b) ==
    Positive(parseSeatId(a.seatInfo).car, parseSeatId(b.seatInfo).car)

\* the comparator of attendees.sort puts a after b
SeatAfter(a, b) ==
    LET seatA == parseSeatId(a.seatInfo)
        seatB == parseSeatId(b.seatInfo)
    IN  IF seatA.car # seatB.car THEN Positive(seatA.car, seatB.car)
        ELSE Positive(seatA.seat, seatB.seat)

\* Array.prototype.sort is stable: x goes before the first element that sorts after it
RECURSIVE InsertBySeat(_, _)
InsertBySeat(sorted, x) ==
    IF sorted = <<>> THEN <<x>>
    ELSE IF SeatAfter(Head(sorted), x) THEN <<x>> \o sorted
    ELSE <<Head(sorted)>> \o InsertBySeat(Tail(sorted), x)

RECURSIVE SortBySeat(_)
SortBySeat(attendees) ==
    IF attendees = <<>> THEN <<>>
    ELSE InsertBySeat(SortBySeat(SubSeq(attendees, 1, Len(attendees) - 1)),
                      attendees[Len(attendees)])

\* new Date("MM/DD/YYYY, HH12:MI AM").getTime(), counted in minutes of a
\* calendar of 12 months of 31 days
getTime(str) ==
    LET month == parseInt(SubSeq(str, 1, 2))
        day == parseInt(SubSeq(str, 4, 5))
        year == parseInt(SubSeq(str, 7, 10))
        hour12 == parseInt(SubSeq(str, 13, 14))
        minute == parseInt(SubSeq(str, 16, 17))
        hour == (hour12 % 12) + (IF str[19] = "P" THEN 12 ELSE 0)
    IN  (((year * 12 + month) * 31 + day) * 24 + hour) * 60 + minute

RECURSIVE InsertByTime(_, _)
InsertByTime(sorted, x) ==
    IF sorted = <<>> THEN <<x>>
    ELSE IF getTime(Head(sorted).eventStartTime.s) > getTime(x.eventStartTime.s)
    THEN <<x>> \o sorted
    ELSE <<Head(sorted)>> \o InsertByTime(Tail(sorted), x)

RECURSIVE SortByTime(_)
SortByTime(groups) ==
    IF groups = <<>> THEN <<>>
    ELSE InsertByTime(SortByTime(SubSeq(groups, 1, Len(groups) - 1)), groups[Len(groups)])

\* groupedEvents: reduce, sort each group by seat, sort the groups by time
groupedEvents(filtered) ==
    LET grouped == Reduce(filtered, <<>>)
        seated == [g \in DOMAIN grouped |->
                     GroupedEvent(grouped[g].eventStartTime, SortBySeat(grouped[g].attendees))]
    IN  SortByTime(seated)

\* what a render computes
Render(rs, q) ==
    [filteredResults |-> filteredResults(rs, q),
     groupedEvents |-> groupedEvents(filteredResults(rs, q))]

\* the events of the day: two start at the same minute
DisplayTime(event_id) ==
    IF event_id = 3
    THEN Str(<<"1", "1", "/", "1", "2", "/", "2", "0", "2", "5", ",", " ",
               "0", "9", ":", "0", "0", " ", "A", "M">>)
    ELSE Str(<<"1", "1", "/", "1", "2", "/", "2", "0", "2", "5", ",", " ",
               "0", "7", ":", "0", "0", " ", "P", "M">>)

AttendeeNames ==
    { Str(<<"A", "n", "a", " ", "L", "e", "e">>),
      Str(<<"J", "u", "a", "n", " ", "C", "r", "u", "z">>),
      Str(<<"B", "o">>) }

SeatInfos ==
    { Null,
      Str(<<"C", "A", "R", " ", "1", "-", "S", "e", "a", "t", " ", "1", "0">>),
      Str(<<"C", "A", "R", " ", "2", "-", "S", "e", "a", "t", " ", "3">>) }

AttendeeResults ==
    { [event_id |-> e, eventStartTime |-> DisplayTime(e), attendeeName |-> n,
       seatInfo |-> seat, validatedAt |-> Null] :
          e \in 1 .. 3, n \in AttendeeNames, seat \in SeatInfos }

SearchQueries ==
    { <<>>, <<" ">>, <<"a", "n", "a">>, <<"A", "N">>, <<"a", "n", "a", " ">>,
      <<" ", "b", "o">>, <<"z">> }

InitClient ==
    /\ RequestIdle
    /\ StoreIdle
    /\ RowIdle
    /\ results \in UNION { [1 .. n -> AttendeeResults] : n \in 0 .. MaxRows }
    /\ searchQuery \in SearchQueries
    /\ view = <<>>
    /\ FetchIdle

\* the component renders
RenderPage ==
    /\ view = <<>>
    /\ view' = Render(results, searchQuery)
    /\ UNCHANGED <<results, searchQuery, fetchVars, request, storeVars, rowVars>>

NextClient == RenderPage

SpecClient == InitClient /\ [][NextClient]_vars

----------------------------------------------------------------------------
Rendered == view # <<>>

\* the letters of a and b are the same but for their case
SameIgnoringCase(a, b) ==
    /\ Len(a) = Len(b)
    /\ \A k \in DOMAIN a :
           \/ a[k] = b[k]
           \/ \E i \in DOMAIN UpperCaseLetters :
                  {a[k], b[k]} = {UpperCaseLetters[i], LowerCaseLetters[i]}

\* str contains sub as a substring, whatever the case of the letters
ContainsSubstring(str, sub) ==
    \E from \in 1 .. (Len(str) + 1) :
        /\ from + Len(sub) - 1 <= Len(str)
        /\ SameIgnoringCase(SubSeq(str, from, from + Len(sub) - 1), sub)

\* kept is the subsequence of rs of the rows that satisfy Wanted(_)
IsSubsequenceOf(kept, rs, Wanted(_)) ==
    \E f \in [DOMAIN kept -> DOMAIN rs] :
        /\ \A i, j \in DOMAIN kept : i < j => f[i] < f[j]
        /\ \A i \in DOMAIN kept : kept[i] = rs[f[i]]
        /\ \A k \in DOMAIN rs : Wanted(rs[k]) <=> \E i \in DOMAIN kept : f[i] = k

NameContainsQuery(result) == ContainsSubstring(result.attendeeName.s, searchQuery)

NameContainsQueryOrBlank(result) ==
    \/ \A k \in DOMAIN searchQuery : searchQuery[k] = " "
    \/ ContainsSubstring(result.attendeeName.s, searchQuery)

\* C19 as stated: the rows kept are exactly those whose name contains the query
FilterKeepsNamesContainingQuery ==
    Rendered => IsSubsequenceOf(view.filteredResults, results, NameContainsQuery)

(* C19: the name filter keeps, in their order, exactly the rows whose      *)
(* attendee display name contains the search query as a substring whatever *)
(* the case of the letters; a query that is empty or made of white space   *)
(* only keeps every row.                                                   *)
FilterKeepsNamesContainingQueryOrBlank ==
    Rendered => IsSubsequenceOf(view.filteredResults, results, NameContainsQueryOrBlank)

\* the query "ana" on "Ana Lee", "Juan Cruz" keeps "Ana Lee" only
FilteredAnaFromAnaAndJuan ==
    /\ Rendered
    /\ searchQuery = <<"a", "n", "a">>
    /\ Len(results) = 2
    /\ results[1].attendeeName.s = <<"A", "n", "a", " ", "L", "e", "e">>
    /\ results[2].attendeeName.s = <<"J", "u", "a", "n", " ", "C", "r", "u", "z">>
    /\ view.filteredResults = <<results[1]>>

----------------------------------------------------------------------------
\* the positions <<g, i>> of the rows in the groups
GroupPositions ==
    { p \in (DOMAIN results) \X (DOMAIN results) :
        /\ p[1] \in DOMAIN view.groupedEvents
        /\ p[2] \in DOMAIN view.groupedEvents[p[1]].attendees }

(* C20: grouping buckets the filtered rows by equality of the event        *)
(* display-time string: every filtered row lands in exactly one group, no  *)
(* group is empty, two rows share a group if and only if their display     *)
(* strings are equal, whatever events they belong to.                      *)
GroupsPartitionByDisplayTime ==
    Rendered
        => \E place \in [DOMAIN view.filteredResults -> GroupPositions] :
               /\ \A i, j \in DOMAIN view.filteredResults : i # j => place[i] # place[j]
               /\ \A p \in GroupPositions : \E i \in DOMAIN view.filteredResults : place[i] = p
               /\ \A i \in DOMAIN view.filteredResults :
                      view.groupedEvents[place[i][1]].attendees[place[i][2]]
                          = view.filteredResults[i]
               /\ \A g \in DOMAIN view.groupedEvents :
                      view.groupedEvents[g].attendees # <<>>
               /\ \A i, j \in DOMAIN view.filteredResults :
                      place[i][1] = place[j][1]
                          <=> view.filteredResults[i].eventStartTime
                                  = view.filteredResults[j].eventStartTime

\* rows of two events that start at the same minute share the one group
TwoEventsInOneGroup ==
    /\ Rendered
    /\ Len(view.groupedEvents) = 1
    /\ Len(view.groupedEvents[1].attendees) = 2
    /\ view.groupedEvents[1].attendees[1].event_id
           # view.groupedEvents[1].attendees[2].event_id

----------------------------------------------------------------------------
(* The dashboard rendering rows that differ in their seat strings          *)

\* number of rows the dashboard holds when the seat strings vary
MaxSeated == 3

\* absent, empty, matching in three spellings, and not matching
SeatStrings ==
    { Null,
      Str(<<"C", "A", "R", " ", "1", "-", "S", "e", "a", "t", " ", "1", "0">>),
      Str(<<"C", "A", "R", " ", "2", "-", "S", "e", "a", "t", " ", "3">>),
      Str(<<"c", "a", "r", "1", " ", "t", "a", "b", "l", "e", " ", "2">>),
      Str(<<"V", "I", "P", " ", "7">>) }

SeatedResults ==
    { [event_id |-> e, eventStartTime |-> DisplayTime(e),
       attendeeName |-> Str(<<"B", "o">>), seatInfo |-> seat, validatedAt |-> Null] :
          e \in 2 .. 3, seat \in SeatStrings }

InitSeated ==
    /\ RequestIdle
    /\ StoreIdle
    /\ RowIdle
    /\ results \in UNION { [1 .. n -> SeatedResults] : n \in 0 .. MaxSeated }
    /\ searchQuery = <<>>
    /\ view = <<>>
    /\ FetchIdle

SpecSeated == InitSeated /\ [][NextClient]_vars

----------------------------------------------------------------------------
\* the characters a .. b of str are blanks (none when a > b)
Blank(str, a, b) == \A k \in a .. b : str[k] = " "

\* the characters a .. b of str are a whole number: digits, with no digit around
NumberRun(str, a, b) ==
    /\ a <= b
    /\ \A k \in a .. b : IsDigit(str[k])
    /\ a = 1 \/ ~IsDigit(str[a - 1])
    /\ b = Len(str) \/ ~IsDigit(str[b + 1])

\* the whole numbers of str, as <<first, last>> positions
NumberRuns(str) == { r \in (DOMAIN str) \X (DOMAIN str) : NumberRun(str, r[1], r[2]) }

\* the characters a .. b of str read: blanks, at most one dash, blanks, the
\* word Seat or Table in any case, one blank or more
SeatOrTableBetween(str, a, b) ==
    \E w \in a .. b :
        /\ \A k \in a .. (w - 1) : str[k] \in {" ", "-"}
        /\ Cardinality({ k \in a .. (w - 1) : str[k] = "-" }) <= 1
        /\ \E word \in { <<"s", "e", "a", "t">>, <<"t", "a", "b", "l", "e">> } :
               /\ w + Len(word) <= b
               /\ toLowerCase(SubSeq(str, w, w + Len(word) - 1)) = word
               /\ Blank(str, w + Len(word), b)

\* the <<car, seat>> numbers that the text "CAR <n> - Seat|Table <m>" in str gives
Readings(str) ==
    { <<parseInt(SubSeq(str, r[1][1], r[1][2])), parseInt(SubSeq(str, r[2][1], r[2][2]))>> :
        r \in { r \in NumberRuns(str) \X NumberRuns(str) :
                  /\ r[1][2] < r[2][1]
                  /\ SeatOrTableBetween(str, r[1][2] + 1, r[2][1] - 1)
                  /\ \E i \in 1 .. (r[1][1] - 3) :
                         /\ toLowerCase(SubSeq(str, i, i + 2)) = <<"c", "a", "r">>
                         /\ Blank(str, i + 3, r[1][1] - 1) } }

\* the seat string of the row is given and has the pattern
HasSeatPattern(result) ==
    /\ ~result.seatInfo.null
    /\ Readings(result.seatInfo.s) # {}

(* C21: within each group the attendees are sorted ascending by car number *)
(* and then by seat or table number, and every row whose seat string is    *)
(* absent or does not have the pattern "CAR <n> - Seat|Table <m>" comes    *)
(* after every row that has it.                                            *)
GroupsSortedBySeat ==
    Rendered
        => \A g \in DOMAIN view.groupedEvents :
               \A i, j \in DOMAIN view.groupedEvents[g].attendees :
                   LET a == view.groupedEvents[g].attendees[i]
                       b == view.groupedEvents[g].attendees[j]
                   IN  (i < j /\ HasSeatPattern(b))
                         => /\ HasSeatPattern(a)
                            /\ \A ra \in Readings(a.seatInfo.s), rb \in Readings(b.seatInfo.s) :
                                   \/ ra[1] < rb[1]
                                   \/ ra[1] = rb[1] /\ ra[2] <= rb[2]

\* "CAR 2-Seat 3", "CAR 1-Seat 10", null are shown as "CAR 1-Seat 10", "CAR 2-Seat 3", null
SortedCarOneCarTwoNull ==
    /\ Rendered
    /\ Len(results) = 3
    /\ results[1].seatInfo.s = <<"C", "A", "R", " ", "2", "-", "S", "e", "a", "t", " ", "3">>
    /\ results[2].seatInfo.s
           = <<"C", "A", "R", " ", "1", "-", "S", "e", "a", "t", " ", "1", "0">>
    /\ results[3].seatInfo.null
    /\ Len(view.groupedEvents) = 1
    /\ view.groupedEvents[1].attendees = <<results[2], results[1], results[3]>>

----------------------------------------------------------------------------
\* how often the query q with argument arg was issued so far
Issued(q, arg) ==
    Cardinality({ i \in DOMAIN log : log[i].q = q /\ log[i].arg = arg })
        + (IF \E x \in inflight : x.q = q /\ x.arg = arg THEN 1 ELSE 0)

QueriesBounded ==
    /\ Issued("bulk", 0) <= 1
    /\ Issued("noSeats", 0) <= 1
    /\ \A id \in EventIdSpace : Issued("perEvent", id) <= 1
    /\ \A i \in DOMAIN log : log[i].q = "perEvent" => log[i].arg \in Range(eventIds)
    /\ Cardinality({ i \in DOMAIN log : log[i].q \in {"bulk", "perEvent", "noSeats"} })
           <= Len(eventIds) + 2

(* C22: every request terminates with exactly one response whatever the    *)
(* outcomes of its queries, and it issues at most one bulk query, at most  *)
(* one per-event query per event identifier and at most one attendee-only  *)
(* query.                                                                  *)
RequestTerminatesWithBoundedQueries ==
    /\ (pc # "idle") ~> (response # NoResponse)
    /\ [][response # NoResponse => response' = response /\ pc' = pc /\ log' = log]_vars
    /\ []QueriesBounded

\* a request answered after the bulk query, the per-event queries of two
\* events and the attendee-only query
AnsweredAfterEveryTier ==
    /\ response # NoResponse
    /\ Len(eventIds) >= 2
    /\ Issued("bulk", 0) = 1
    /\ Issued("perEvent", eventIds[1]) = 1
    /\ Issued("perEvent", eventIds[2]) = 1
    /\ Issued("noSeats", 0) = 1

----------------------------------------------------------------------------
\* what the bulk joined fetch returns on the store for the same events
BulkWouldReturn == CombinedRows(db, Range(eventIds))

\* the per-event fallback answered without any query failing
PerEventAnswered == answer.op = "perEvent"

\* the place of the event in the list the event query returned
PlaceOf(event_id) == CHOOSE k \in DOMAIN eventIds : eventIds[k] = event_id

\* C23 as stated: the per-event fallback returns the rows of the bulk fetch in its order
PerEventEqualsBulk ==
    PerEventAnswered => answer.rows = BulkWouldReturn

(* C23: for the same store, distinct event identifiers and fewer rows than *)
(* the cap, a successful per-event fallback returns the same rows as the   *)
(* bulk joined fetch would have; the rows of an event are in the order of  *)
(* the bulk fetch (attendee descending, then seat assignment ascending),   *)
(* but the events follow one another in the order of the event query, so   *)
(* that the whole list equals that of the bulk fetch when the identifiers  *)
(* were returned in descending order.                                      *)
PerEventEqualsBulkUpToEventOrder ==
    PerEventAnswered
        => /\ Len(answer.rows) = Len(BulkWouldReturn)
           /\ Range(answer.rows) = Range(BulkWouldReturn)
           /\ \A i, j \in DOMAIN answer.rows :
                  i < j
                      => \/ PlaceOf(answer.rows[i].event_id) < PlaceOf(answer.rows[j].event_id)
                         \/ /\ answer.rows[i].event_id = answer.rows[j].event_id
                            /\ \/ answer.rows[i].attendee_id > answer.rows[j].attendee_id
                               \/ /\ answer.rows[i].attendee_id = answer.rows[j].attendee_id
                                  /\ answer.rows[i].guest_id < answer.rows[j].guest_id
           /\ (\A k \in 1 .. (Len(eventIds) - 1) : eventIds[k] > eventIds[k + 1])
                  => answer.rows = BulkWouldReturn

\* the event query returned event 1 before event 2, and both have rows:
\* the fallback lists the rows of event 1 first, the bulk fetch those of event 2
PerEventRowsInEventQueryOrder ==
    /\ PerEventAnswered
    /\ eventIds = <<1, 2>>
    /\ Len(answer.rows) >= 3
    /\ answer.rows[1].event_id = 1
    /\ answer.rows[Len(answer.rows)].event_id = 2
    /\ BulkWouldReturn[1].event_id = 2

----------------------------------------------------------------------------
(* The dashboard fetching: fetchAttendees, handleDateSelect, Refresh       *)
(*                                                                         *)
(* A call of fetchAttendees is [id, date, at, ok, alone]: at is the await  *)
(* it is suspended on ("fetch", then "json"), ok is response.ok once the   *)
(* fetch has resolved; alone tells that no other call was outstanding      *)
(* while this one was.                                                     *)

\* number of calls of fetchAttendees in a behaviour
MaxFetches == 3

\* the days of the calendar
Days == {0, 1}

\* the rows the service has for the day
ResultsOf(day) ==
    IF day = 0
    THEN << [event_id |-> 1, eventStartTime |-> DisplayTime(1),
             attendeeName |-> Str(<<"A", "n", "a", " ", "L", "e", "e">>),
             seatInfo |-> Str(<<"C", "A", "R", " ", "2", "-", "S", "e", "a", "t", " ", "3">>),
             validatedAt |-> Null],
            [event_id |-> 3, eventStartTime |-> DisplayTime(3),
             attendeeName |-> Str(<<"B", "o">>), seatInfo |-> Null, validatedAt |-> Null] >>
    ELSE << [event_id |-> 4,
             eventStartTime |-> Str(<<"1", "1", "/", "1", "3", "/", "2", "0", "2", "5", ",", " ",
                                      "0", "7", ":", "0", "0", " ", "P", "M">>),
             attendeeName |-> Str(<<"J", "u", "a", "n", " ", "C", "r", "u", "z">>),
             seatInfo |-> Null, validatedAt |-> Null] >>

\* the body of a response: with a results array or without (an error body)
Body(hasResults, rs) == [hasResults |-> hasResults, results |-> rs]

\* data.results || []
ResultsOrEmpty(data) == IF data.hasResults THEN data.results ELSE <<>>

InitDashboard ==
    /\ RequestIdle
    /\ StoreIdle
    /\ RowIdle
    /\ results = <<>>
    /\ searchQuery = <<>>
    /\ view = <<>>
    /\ isLoading = FALSE
    /\ selectedDate \in Days
    /\ outstanding = {}
    /\ started = 0
    /\ fetchLog = <<>>

\* fetchAttendees(date) up to its first await
fetchAttendees(date) ==
    /\ started < MaxFetches
    /\ started' = started + 1
    /\ isLoading' = TRUE
    /\ results' = <<>>
    /\ outstanding' = { [f EXCEPT !.alone = FALSE] : f \in outstanding }
                        \cup { [id |-> started + 1, date |-> date, at |-> "fetch",
                                ok |-> FALSE, alone |-> outstanding = {}] }
    /\ UNCHANGED <<searchQuery, fetchLog>>

\* another day is picked in the calendar, which is not disabled while loading
\* (a click on the selected day reports no date, and the handler returns)
handleDateSelect(date) ==
    /\ date # selectedDate
    /\ selectedDate' = date
    /\ fetchAttendees(date)
    /\ UNCHANGED <<request, storeVars, rowVars>>

\* a click on Refresh, which is disabled while loading
Refresh ==
    /\ ~isLoading
    /\ fetchAttendees(selectedDate)
    /\ UNCHANGED <<selectedDate, request, storeVars, rowVars>>

\* the call f has returned having received data (or nothing, when it threw)
Returned(f, succeeded, data) ==
    /\ outstanding' = outstanding \ {f}
    /\ fetchLog' = Append(fetchLog, [id |-> f.id, date |-> f.date, succeeded |-> succeeded,
                                     data |-> data, alone |-> f.alone])

\* the finally block left out
Caught_noFinally(f) ==
    /\ results' = results
    /\ isLoading' = isLoading
    /\ Returned(f, FALSE, Body(FALSE, <<>>))

\* catch: a toast; finally: setIsLoading(false)
Caught(f) ==
    /\ results' = results
    /\ isLoading' = FALSE
    /\ Returned(f, FALSE, Body(FALSE, <<>>))

\* await fetch(...) settles: a response, OK or not, or a rejection
FetchSettles(f, outcome) ==
    /\ f \in outstanding
    /\ f.at = "fetch"
    /\ IF outcome = "rejected"
       THEN Caught(f)
       ELSE /\ outstanding' = (outstanding \ {f})
                                \cup {[f EXCEPT !.at = "json", !.ok = (outcome = "ok")]}
            /\ UNCHANGED <<results, isLoading, fetchLog>>
    /\ UNCHANGED <<searchQuery, selectedDate, started, request, storeVars, rowVars>>

\* await response.json() settles: the body, or a rejection
JsonSettles(f, parsed, data) ==
    /\ f \in outstanding
    /\ f.at = "json"
    /\ IF ~parsed \/ ~f.ok
       THEN Caught(f)
       ELSE /\ results' = ResultsOrEmpty(data)
            /\ isLoading' = FALSE
            /\ Returned(f, TRUE, data)
    /\ UNCHANGED <<searchQuery, selectedDate, started, request, storeVars, rowVars>>

\* the bodies the service answers a fetch for the day with
BodiesFor(day) == { Body(TRUE, ResultsOf(day)), Body(FALSE, <<>>) }

\* a user's action or the return of an await, and the render that follows the
\* change of state
NextDashboard ==
    /\ \/ \E date \in Days : handleDateSelect(date)
       \/ Refresh
       \/ \E f \in outstanding, outcome \in {"ok", "notOk", "rejected"} :
              FetchSettles(f, outcome)
       \/ \E f \in outstanding, parsed \in BOOLEAN :
              \E data \in BodiesFor(f.date) : JsonSettles(f, parsed, data)
    /\ view' = Render(results', searchQuery)

SpecDashboard == InitDashboard /\ [][NextDashboard]_vars

----------------------------------------------------------------------------
\* every call of fetchAttendees made so far returned with a results array
AllFetchesSucceeded ==
    /\ outstanding = {}
    /\ fetchLog # <<>>
    /\ \A i \in DOMAIN fetchLog : fetchLog[i].succeeded /\ fetchLog[i].data.hasResults

(* C24: when fetchAttendees is started for a new date while an earlier     *)
(* fetch is outstanding, then once all fetches have completed the results  *)
(* shown are those of the date selected last, and isLoading is never false *)
(* while a fetch is outstanding.                                           *)
LatestDateWins ==
    /\ outstanding # {} => isLoading
    /\ AllFetchesSucceeded => results = ResultsOf(selectedDate)

----------------------------------------------------------------------------
\* the step starts a call of fetchAttendees
FetchStarts == started' # started

\* the step is the return of a call during which no other call was outstanding
SingleFetchReturns ==
    /\ fetchLog' # fetchLog
    /\ fetchLog'[Len(fetchLog')].alone

(* C25: a single dashboard fetch clears the results and sets isLoading     *)
(* when it starts; when it completes isLoading is false, whether it        *)
(* succeeded or failed; on success the results are the results array of    *)
(* the response, and on failure (a status that is not OK, or an error      *)
(* thrown) they stay empty.                                                *)
SingleFetchLifecycle ==
    /\ [][FetchStarts => isLoading' /\ results' = <<>>]_vars
    /\ [][SingleFetchReturns
            => LET call == fetchLog'[Len(fetchLog')]
               IN  /\ ~isLoading'
                   /\ (call.succeeded /\ call.data.hasResults)
                         => results' = call.data.results
                   /\ ~call.succeeded => results' = <<>>]_vars

\* rows were shown, then a fetch made alone failed: nothing is shown
FailedFetchAfterRowsShown ==
    /\ Len(fetchLog) = 2
    /\ fetchLog[1].succeeded /\ fetchLog[1].data.results # <<>>
    /\ fetchLog[2].alone /\ ~fetchLog[2].succeeded
    /\ outstanding = {}
    /\ results = <<>>
    /\ ~isLoading

----------------------------------------------------------------------------
\* the request was answered with a success body
Success == response.status = 200

\* the rows of the response came out of the fallback chain, from the tier of
\* the last query
CameFromChain == log # <<>> /\ log[Len(log)].q \in Tiers /\ log[Len(log)].ok

ReportedFlag ==
    IF log[Len(log)].q = "noSeats" THEN "false" ELSE "true"

\* C26 as stated: the flag is reported whenever the rows came out of the chain
FlagReportedForEveryChainResult ==
    Success
        => /\ response.total = Length(response.results)
           /\ CameFromChain => response.seatAssignmentsIncluded = ReportedFlag

(* C26: in every success response metadata.total equals the length of the  *)
(* results array; seatAssignmentsIncluded is reported when the fallback    *)
(* chain returned at least one row (false for the attendee-only tier, true *)
(* otherwise) and is left out when the chain returned no row or when no    *)
(* event qualified.                                                        *)
FlagReportedForNonEmptyChainResult ==
    Success
        => /\ response.total = Length(response.results)
           /\ (CameFromChain /\ response.total > 0)
                 => response.seatAssignmentsIncluded = ReportedFlag
           /\ (~CameFromChain \/ response.total = 0)
                 => response.seatAssignmentsIncluded = "omitted"

\* the chain degraded to the attendee-only tier, which returned no row
NoSeatsReturnedNothing ==
    /\ Success
    /\ log[Len(log)].q = "noSeats"
    /\ log[Len(log)].ok
    /\ log[Len(log)].count = 0
    /\ response.total = 0
    /\ response.seatAssignmentsIncluded = "omitted"

====
